---- MODULE Spec2Model ----
(***************************************************************************)
(* Ground-truth generation of LineMODCocoDataset (src/dataloader.py):      *)
(* 3D bounding-box vertices, their projection, Gaussian belief maps, the   *)
(* vector fields toward the centroid, and the 25-channel stacking done by  *)
(* __getitem__, executed by DataLoader workers over a shared model table.  *)
(***************************************************************************)
EXTENDS Integers, Sequences, FiniteSets, TLC

VARIABLES
    models,     \* self.models: the table loaded from modelsPath
    pc,         \* pc[w]: where worker w stands in __getitem__ / generate_ground_truth
    sample,     \* sample[w]: the (image shape, annotation) the worker fetched
    loc,        \* loc[w]: the local variables of generate_ground_truth
    result,     \* result[w]: what __getitem__ produced (tensor or exception)
    probe       \* a direct call of gaussian_heatmaps or vector_field: arguments and value

vars == <<models, pc, sample, loc, result, probe>>

-----------------------------------------------------------------------------
(* Small integer helpers.                                                  *)

Abs(n) == IF n < 0 THEN -n ELSE n

Sgn(n) == IF n < 0 THEN -1 ELSE IF n > 0 THEN 1 ELSE 0

RECURSIVE Gcd(_, _)
Gcd(a, b) == IF b = 0 THEN a ELSE Gcd(b, a % b)

RECURSIVE ISqrtIn(_, _, _)
\* the largest r in lo..hi with r*r <= n (binary search; hi*hi stays below 2^31)
ISqrtIn(n, lo, hi) ==
    IF lo >= hi THEN lo
    ELSE LET mid == (lo + hi + 1) \div 2
         IN  IF mid * mid <= n THEN ISqrtIn(n, mid, hi) ELSE ISqrtIn(n, lo, mid - 1)

ISqrt(n) == ISqrtIn(n, 0, 46340)

-----------------------------------------------------------------------------
(* Binary floating point.  A finite number is s * m * 2^e with a 15-bit    *)
(* mantissa m in [2^14, 2^15) (the width TLC's 32-bit integers allow for a *)
(* product of two mantissas); the exponent range, the gradual underflow    *)
(* and the special values are those of IEEE float64 / float32.             *)

Radix == 2^15

HalfRadix == 2^14

NaN == [k |-> "nan", s |-> 1, m |-> 0, e |-> 0]

Zero == [k |-> "num", s |-> 1, m |-> 0, e |-> 0]

Inf(s) == [k |-> "inf", s |-> s, m |-> 0, e |-> 0]

RECURSIVE Norm(_, _, _)
Norm(s, m, e) ==
    IF m = 0 THEN Zero
    ELSE IF m >= Radix THEN Norm(s, m \div 2, e + 1)
    ELSE IF m < HalfRadix THEN Norm(s, m * 2, e - 1)
    ELSE [k |-> "num", s |-> s, m |-> m, e |-> e]

FromInt(n) == Norm(IF n < 0 THEN -1 ELSE 1, Abs(n), 0)

One == FromInt(1)

IsNum(v) == v.k = "num"

IsZero(v) == v.k = "num" /\ v.m = 0

\* a < b for finite a, b >= 0
FLess(a, b) ==
    IF b.m = 0 THEN FALSE
    ELSE IF a.m = 0 THEN TRUE
    ELSE a.e < b.e \/ (a.e = b.e /\ a.m < b.m)

\* IEEE comparison a <= b for a, b >= 0 or non-finite: false when either is NaN
FLe(a, b) ==
    IF a.k = "nan" \/ b.k = "nan" THEN FALSE
    ELSE IF b.k = "inf" THEN TRUE
    ELSE IF a.k = "inf" THEN FALSE
    ELSE ~FLess(b, a)

\* m / 2^k rounded to nearest, ties to even (k >= 1)
RoundShift(m, k) ==
    IF k > 16 THEN 0
    ELSE LET p == 2^k
             q == m \div p
             r == m % p
             h == p \div 2
         IN  IF r > h \/ (r = h /\ q % 2 = 1) THEN q + 1 ELSE q

\* the least exponent of a nonzero float64 (2^-1074) and float32 (2^-149)
F64MinExp == -1074

F32MinExp == -149

\* v as stored in a format whose smallest subnormal is 2^emin
Quantize(v, emin) ==
    IF v.k # "num" \/ v.m = 0 \/ v.e >= emin THEN v
    ELSE Norm(v.s, RoundShift(v.m, emin - v.e), emin)

\* ndarray assignment into a dtype=np.float32 array
ToFloat32(v) == Quantize(v, F32MinExp)

\* a / b for finite a and finite b # 0
FDiv(a, b) ==
    IF a.m = 0 THEN Zero
    ELSE Norm(a.s * b.s, (a.m * (2 * Radix) + b.m) \div (2 * b.m), a.e - b.e - 15)

\* np.sqrt of a finite v >= 0
FSqrt(v) ==
    IF v.m = 0 THEN Zero
    ELSE IF (v.e - 14) % 2 = 0
         THEN Norm(1, ISqrt(v.m * HalfRadix), (v.e - 14) \div 2)
         ELSE Norm(1, ISqrt(v.m * Radix), (v.e - 15) \div 2)

\* the float nearest to the rational n/d (d > 0)
FRat(n, d) == FDiv(FromInt(n), FromInt(d))

\* log2(e) and 2^(-2^-i), i = 1..15, in units of 2^-15: np.exp by range reduction
Log2E == 47274

Pow2Tab == <<23170, 27554, 30048, 31379, 32066, 32415, 32591, 32679,
             32724, 32746, 32757, 32762, 32765, 32767, 32767>>

RECURSIVE FracPow(_, _, _)
\* acc * 2^(-r / 2^15) from bit i of the fraction r on
FracPow(r, i, acc) ==
    IF i > 15 THEN acc
    ELSE LET bit == (r \div (2^(15 - i))) % 2
         IN  FracPow(r, i + 1,
                     IF bit = 1 THEN (acc * Pow2Tab[i] + HalfRadix) \div Radix ELSE acc)

\* np.exp(-(n/d)) in float64, for n >= 0 and d > 0
FExpNeg(n, d) ==
    LET a == n \div d
        b == n % d
    IN  IF a > 2000 THEN Zero
        ELSE LET t == a * Log2E + (b * Log2E) \div d
                 q == t \div Radix
                 r == t % Radix
             IN  Quantize(Norm(1, FracPow(r, 1, Radix), (-15) - q), F64MinExp)

-----------------------------------------------------------------------------
(* Pixel coordinates.  The float64 value of x/z is kept as the exact       *)
(* fraction n/d (d > 0, lowest terms): the inputs below have small integer *)
(* entries, chosen so that no float64 quotient or mean of them is rounded  *)
(* across a multiple of 8: the floor the code takes of the rounded value   *)
(* is the floor of the exact one.  d = 0 is what numpy's division by zero  *)
(* gives: n > 0 is +inf, n < 0 is -inf, n = 0 is nan.                      *)

Rat(n, d) ==
    IF d = 0 THEN [n |-> Sgn(n), d |-> 0]
    ELSE LET g == Gcd(Abs(n), Abs(d))
         IN  [n |-> (Sgn(d) * n) \div g, d |-> Abs(d) \div g]

RInt(n) == [n |-> n, d |-> 1]

RNaN == [n |-> 0, d |-> 0]

IsFinite(r) == r.d # 0

IsNaN(r) == r.d = 0 /\ r.n = 0

\* float addition, with inf + (-inf) = nan
RAdd(a, b) ==
    IF IsNaN(a) \/ IsNaN(b) THEN RNaN
    ELSE IF a.d = 0 /\ b.d = 0 THEN (IF a.n = b.n THEN a ELSE RNaN)
    ELSE IF a.d = 0 THEN a
    ELSE IF b.d = 0 THEN b
    ELSE Rat(a.n * b.d + b.n * a.d, a.d * b.d)

RECURSIVE RSum(_)
RSum(s) == IF s = << >> THEN RInt(0) ELSE RAdd(s[1], RSum(Tail(s)))

\* np.mean over one row of the (2, 8) array
RMean(s) ==
    LET t == RSum(s)
    IN  IF t.d = 0 THEN t ELSE Rat(t.n, t.d * Len(s))

\* the // operator on a float: floor of the quotient, nan for inf and nan
FloorDiv(r, k) == IF r.d = 0 THEN RNaN ELSE RInt(r.n \div (r.d * k))

-----------------------------------------------------------------------------
(* create_3D_vertices, extract_pose, project_3D_vertices.                  *)

RECURSIVE SumSeq(_)
SumSeq(s) == IF s = << >> THEN 0 ELSE s[1] + SumSeq(Tail(s))

Dot(a, b) == SumSeq([k \in 1..Len(a) |-> a[k] * b[k]])

VAdd(a, b) == [k \in 1..Len(a) |-> a[k] + b[k]]

\* rows of a times columns of b; b is given as its sequence of rows
MatMul(a, b) ==
    [r \in 1..Len(a) |->
        [c \in 1..Len(b[1]) |-> Dot(a[r], [k \in 1..Len(b) |-> b[k][c]])]]

\* list.reshape(3, 3)
Reshape33(l) == [r \in 1..3 |-> [c \in 1..3 |-> l[3 * (r - 1) + c]]]

\* create_3D_vertices with +ey and +ez listed in the other order
create_3D_vertices_swapped(model) ==
    LET v1 == <<model.min_x, model.min_y, model.min_z>>
        sx == <<model.size_x, 0, 0>>
        sy == <<0, model.size_y, 0>>
        sz == <<0, 0, model.size_z>>
    IN  <<v1, VAdd(v1, sx), VAdd(v1, sz), VAdd(v1, sy), VAdd(VAdd(v1, sx), sy),
          VAdd(VAdd(v1, sx), sz), VAdd(VAdd(v1, sy), sz), VAdd(VAdd(VAdd(v1, sx), sy), sz)>>

\* the eight corners, one column of the (3, 8) array each
create_3D_vertices(model) ==
    LET size_x == <<model.size_x, 0, 0>>
        size_y == <<0, model.size_y, 0>>
        size_z == <<0, 0, model.size_z>>
        v1 == <<model.min_x, model.min_y, model.min_z>>
        v2 == VAdd(v1, size_x)
        v3 == VAdd(v1, size_y)
        v4 == VAdd(v1, size_z)
        v5 == VAdd(VAdd(v1, size_x), size_y)
        v6 == VAdd(VAdd(v1, size_x), size_z)
        v7 == VAdd(VAdd(v1, size_y), size_z)
        v8 == VAdd(VAdd(VAdd(v1, size_x), size_y), size_z)
    IN  <<v1, v2, v3, v4, v5, v6, v7, v8>>

\* np.hstack([R.reshape(3, 3), t.reshape(3, -1)]): the 3 x 4 pose
extract_pose(target) ==
    LET R == Reshape33(target.cam_R_m2c)
    IN  [r \in 1..3 |-> Append(R[r], target.cam_t_m2c[r])]

\* P_m2c @ vstack((vertices, ones)): the homogeneous (x, y, z) of each vertex
\* np.array(target['cam_K']).reshape(3, 3) @ pose
P_m2c(target) == MatMul(Reshape33(target.cam_K), extract_pose(target))

homogeneous_2d(vertices, target) ==
    [j \in 1..Len(vertices) |->
        [r \in 1..3 |-> Dot(P_m2c(target)[r], Append(vertices[j], 1))]]

\* the (2, n) array of pixel coordinates: row 1 the x, row 2 the y
project_3D_vertices(vertices, target) ==
    LET hom == homogeneous_2d(vertices, target)
    IN  [r \in 1..2 |-> [j \in 1..Len(vertices) |-> Rat(hom[j][r], hom[j][3])]]

-----------------------------------------------------------------------------
(* gaussian_heatmaps and vector_field.  An (h, w) array is a sequence of h *)
(* rows of w cells; cell (x, y) of the code's meshgrid is a[y + 1][x + 1]. *)

Grid(h, w, F(_, _)) == [yy \in 1..h |-> [xx \in 1..w |-> F(xx - 1, yy - 1)]]

At(a, x, y) == a[y + 1][x + 1]

Zeros(h, w) == Grid(h, w, LAMBDA x, y : Zero)

\* (x - cx)**2 + (y - cy)**2 as an exact fraction, for a finite centre
Dist2(x, y, cx, cy) ==
    LET dx == x * cx.d - cx.n
        dy == y * cy.d - cy.n
    IN  Rat(dx * dx * cy.d * cy.d + dy * dy * cx.d * cx.d, cx.d * cx.d * cy.d * cy.d)

\* the Gaussian scaled as a density, by 1 / (2 pi sigma^2)
GaussCellDensity(x, y, center_x, center_y, sigma) ==
    IF IsNaN(center_x) \/ IsNaN(center_y) THEN NaN
    ELSE IF center_x.d = 0 \/ center_y.d = 0 THEN Zero
    ELSE LET d2 == Dist2(x, y, center_x, center_y)
         IN  FDiv(FExpNeg(d2.n, 2 * sigma * sigma * d2.d), FRat(6283 * sigma * sigma, 1000))

\* one cell of np.exp(-((x - center_x)**2 + (y - center_y)**2) / (2 * sigma**2))
GaussCell(x, y, center_x, center_y, sigma) ==
    IF IsNaN(center_x) \/ IsNaN(center_y) THEN NaN
    ELSE IF center_x.d = 0 \/ center_y.d = 0 THEN Zero
    ELSE LET d2 == Dist2(x, y, center_x, center_y)
         IN  FExpNeg(d2.n, 2 * sigma * sigma * d2.d)

gaussian_heatmaps(center, sigma, size) ==
    Grid(size[1], size[2],
         LAMBDA x, y : GaussCell(x, y, center[1], center[2], sigma))

\* the float c - x for a grid index x
FSubIdx(c, x) ==
    IF IsNaN(c) THEN NaN
    ELSE IF c.d = 0 THEN Inf(c.n)
    ELSE FRat(c.n - x * c.d, c.d)

\* np.sqrt((x - px)**2 + (y - py)**2)
Hypot(x, y, px, py) ==
    IF IsNaN(px) \/ IsNaN(py) THEN NaN
    ELSE IF px.d = 0 \/ py.d = 0 THEN Inf(1)
    ELSE LET d2 == Dist2(x, y, px, py)
         IN  FSqrt(FRat(d2.n, d2.d))

\* the radius within which the vector components are set
radius == 3

\* vector_field with the disk taken open: distance < radius
VectorCellOpenDisk(x, y, vertex, centroid) ==
    LET distance == Hypot(x, y, vertex[1], vertex[2])
        within_radius == distance.k = "num" /\ FLess(distance, FromInt(radius))
        vector_x == FSubIdx(centroid[1], x)
        vector_y == FSubIdx(centroid[2], y)
        magnitude == Hypot(x, y, centroid[1], centroid[2])
        non_zero == magnitude.k = "inf" \/ (magnitude.k = "num" /\ magnitude.m # 0)
        Normalize(v) ==
            IF ~non_zero THEN v
            ELSE IF magnitude.k = "inf" THEN (IF v.k = "num" THEN Zero ELSE NaN)
            ELSE FDiv(v, magnitude)
    IN  IF within_radius THEN <<Normalize(vector_x), Normalize(vector_y)>>
        ELSE <<Zero, Zero>>

\* one cell of (vector_field_x, vector_field_y)
VectorCell(x, y, vertex, centroid) ==
    LET distance == Hypot(x, y, vertex[1], vertex[2])
        within_radius == FLe(distance, FromInt(radius))
        vector_x == FSubIdx(centroid[1], x)
        vector_y == FSubIdx(centroid[2], y)
        magnitude == Hypot(x, y, centroid[1], centroid[2])
        non_zero == magnitude.k = "inf" \/ (magnitude.k = "num" /\ magnitude.m # 0)
        Normalize(v) ==
            IF ~non_zero THEN v
            ELSE IF magnitude.k = "inf" THEN (IF v.k = "num" THEN Zero ELSE NaN)
            ELSE FDiv(v, magnitude)
    IN  IF within_radius THEN <<Normalize(vector_x), Normalize(vector_y)>>
        ELSE <<Zero, Zero>>

vector_field(vertex, centroid, size) ==
    <<Grid(size[1], size[2], LAMBDA x, y : VectorCell(x, y, vertex, centroid)[1]),
      Grid(size[1], size[2], LAMBDA x, y : VectorCell(x, y, vertex, centroid)[2])>>

-----------------------------------------------------------------------------
(* The inputs: the model table, and the (image, annotation) pairs the      *)
(* dataset can return.  Only the image's shape reaches the ground truth.   *)

\* the largest number of grid cells per side among the images of the dataset
MaxGrid == 2

\* the number of DataLoader workers running __getitem__ side by side
NumWorkers == 2

\* the stride between image pixels and grid cells (image.shape // 8, px // 8)
DownFactor == 8

\* the sigma generate_ground_truth passes to gaussian_heatmaps
Sigma == 2

\* json.load(open(modelsPath)): keys are strings
ModelsJson ==
    [key \in {"1", "2"} |->
        IF key = "1"
        THEN [min_x |-> 0, min_y |-> 0, min_z |-> 0,
              size_x |-> 2, size_y |-> 2, size_z |-> 2]
        ELSE [min_x |-> -1, min_y |-> -2, min_z |-> 1,
              size_x |-> 2, size_y |-> 3, size_z |-> 3]]

Digits == <<"0", "1", "2", "3", "4", "5", "6", "7", "8", "9">>

RECURSIVE Str(_)
\* str(cat) for cat >= 0
Str(n) == IF n < 10 THEN Digits[n + 1] ELSE Str(n \div 10) \o Digits[(n % 10) + 1]

CategoryIds == {1, 2, 3}

Dims == {DownFactor - 1} \cup {DownFactor * k + 1 : k \in 1..MaxGrid}

Shapes == Dims \X Dims

Intrinsics == {<<8, 0, 8, 0, 8, 8, 0, 0, 1>>, <<24, 0, 8, 0, 24, 8, 0, 0, 1>>}

RotIdentity == <<1, 0, 0, 0, 1, 0, 0, 0, 1>>

RotFlip == <<1, 0, 0, 0, -1, 0, 0, 0, -1>>

Rotations == {RotIdentity, RotFlip}

Translations == {<<0, 0, 1>>, <<0, 0, 2>>, <<0, 0, 0>>, <<-1, -1, 2>>}

MkSample(shape, cat, K, R, t) ==
    [shape |-> shape,
     target |-> [category_id |-> cat, cam_K |-> K, cam_R_m2c |-> R, cam_t_m2c |-> t]]

\* the spec's end-to-end scenario: an 80 x 80 image, K with f = 100 and c = 50, t = (0, 0, 10)
Scenario ==
    MkSample(<<80, 80>>, 1, <<100, 0, 50, 0, 100, 50, 0, 0, 1>>, RotIdentity, <<0, 0, 10>>)

Dataset ==
    {MkSample(s, c, K, R, t) :
        s \in Shapes, c \in CategoryIds, K \in Intrinsics, R \in Rotations,
        t \in Translations}
    \cup {Scenario}

\* the samples the concurrent workers draw from: one whose category is in the
\* table and one whose category is not
ConcDataset ==
    {d \in Dataset : /\ d.shape = <<DownFactor + 1, 2 * DownFactor + 1>>
                     /\ d.target.category_id \in {1, 3}
                     /\ d.target.cam_K[1] = 8
                     /\ d.target.cam_R_m2c = RotIdentity
                     /\ d.target.cam_t_m2c = <<0, 0, 2>>}

-----------------------------------------------------------------------------
(* __getitem__ and generate_ground_truth, one action per statement.        *)

NoSample == MkSample(<<0, 0>>, 0, << >>, << >>, << >>)

NoLoc ==
    [h |-> 0, w |-> 0, belief_map |-> << >>, vector_field |-> << >>, cat |-> 0,
     model |-> << >>, vertices |-> << >>, projected_vertices |-> << >>,
     centroid |-> << >>, i |-> 0]

NoResult == [status |-> "none", gt_maps |-> << >>, projected_vertices |-> << >>]

NoProbe == [fn |-> "none", a |-> << >>, b |-> << >>, sigma |-> 0, size |-> <<0, 0>>,
            called |-> FALSE, out |-> << >>]

InitDataset(W) ==
    /\ models = ModelsJson
    /\ pc = [w \in W |-> "idle"]
    /\ sample = [w \in W |-> NoSample]
    /\ loc = [w \in W |-> NoLoc]
    /\ result = [w \in W |-> NoResult]

InitFor(W) == InitDataset(W) /\ probe = NoProbe

\* lines 125-133: fetch (img, target) and enter generate_ground_truth(img, target)
GetItem(w, D) ==
    /\ pc[w] = "idle"
    /\ \E d \in D : sample' = [sample EXCEPT ![w] = d]
    /\ pc' = [pc EXCEPT ![w] = "alloc"]
    /\ UNCHANGED <<models, loc, result, probe>>

\* lines 103-106
Alloc(w) ==
    /\ pc[w] = "alloc"
    /\ LET h == sample[w].shape[1] \div DownFactor
           ww == sample[w].shape[2] \div DownFactor
       IN  loc' = [loc EXCEPT ![w] =
                      [@ EXCEPT !.h = h, !.w = ww,
                                !.belief_map = [c \in 1..9 |-> Zeros(h, ww)],
                                !.vector_field = [c \in 1..16 |-> Zeros(h, ww)],
                                !.cat = sample[w].target.category_id]]
    /\ pc' = [pc EXCEPT ![w] = "lookup"]
    /\ UNCHANGED <<models, sample, result, probe>>

\* the lookup falling back to the first model: self.models.get(str(cat), default)
LookupDefault(w) ==
    /\ pc[w] = "lookup"
    /\ loc' = [loc EXCEPT ![w].model =
                  IF Str(loc[w].cat) \in DOMAIN models THEN models[Str(loc[w].cat)]
                  ELSE models["1"]]
    /\ pc' = [pc EXCEPT ![w] = "vertices"]
    /\ UNCHANGED <<models, sample, result, probe>>

\* the lookup taking the entry out of the table: self.models.pop(str(cat))
LookupPop(w) ==
    /\ pc[w] = "lookup"
    /\ IF Str(loc[w].cat) \in DOMAIN models
       THEN /\ loc' = [loc EXCEPT ![w].model = models[Str(loc[w].cat)]]
            /\ models' = [k \in DOMAIN models \ {Str(loc[w].cat)} |-> models[k]]
            /\ pc' = [pc EXCEPT ![w] = "vertices"]
            /\ UNCHANGED result
       ELSE /\ pc' = [pc EXCEPT ![w] = "raised"]
            /\ result' = [result EXCEPT ![w].status = "KeyError"]
            /\ UNCHANGED <<models, loc>>
    /\ UNCHANGED <<sample, probe>>

\* line 107: model = self.models[str(cat)], a KeyError when the key is absent
Lookup(w) ==
    /\ pc[w] = "lookup"
    /\ IF Str(loc[w].cat) \in DOMAIN models
       THEN /\ loc' = [loc EXCEPT ![w].model = models[Str(loc[w].cat)]]
            /\ pc' = [pc EXCEPT ![w] = "vertices"]
            /\ UNCHANGED result
       ELSE /\ pc' = [pc EXCEPT ![w] = "raised"]
            /\ result' = [result EXCEPT ![w].status = "KeyError"]
            /\ UNCHANGED loc
    /\ UNCHANGED <<models, sample, probe>>

\* line 108
CreateVertices(w) ==
    /\ pc[w] = "vertices"
    /\ loc' = [loc EXCEPT ![w].vertices = create_3D_vertices(loc[w].model)]
    /\ pc' = [pc EXCEPT ![w] = "project"]
    /\ UNCHANGED <<models, sample, result, probe>>

\* line 109
Project(w) ==
    /\ pc[w] = "project"
    /\ loc' = [loc EXCEPT ![w].projected_vertices =
                  project_3D_vertices(loc[w].vertices, sample[w].target)]
    /\ pc' = [pc EXCEPT ![w] = "centroid"]
    /\ UNCHANGED <<models, sample, result, probe>>

\* np.mean(projected_vertices, axis=1)
MeanAxis1(a) == [r \in 1..Len(a) |-> RMean(a[r])]

\* the centroid taken over the downsampled vertices: np.mean(projected_vertices // 8)
CentroidOfDownsampled(w) ==
    /\ pc[w] = "centroid"
    /\ loc' = [loc EXCEPT ![w] =
                  [@ EXCEPT !.centroid =
                                [r \in 1..2 |->
                                    LET m == RMean([j \in 1..8 |->
                                                 FloorDiv(loc[w].projected_vertices[r][j],
                                                          DownFactor)])
                                    IN  IF m.d = 0 THEN m ELSE Rat(m.n * DownFactor, m.d)],
                            !.i = 0]]
    /\ pc' = [pc EXCEPT ![w] = "loop"]
    /\ UNCHANGED <<models, sample, result, probe>>

\* line 114, and the start of the for loop of line 116
Centroid(w) ==
    /\ pc[w] = "centroid"
    /\ loc' = [loc EXCEPT ![w] =
                  [@ EXCEPT !.centroid = MeanAxis1(loc[w].projected_vertices), !.i = 0]]
    /\ pc' = [pc EXCEPT ![w] = "loop"]
    /\ UNCHANGED <<models, sample, result, probe>>

\* a float64 (h, w) array stored into a slice of a float32 array
Store32(a) == [yy \in 1..Len(a) |-> [xx \in 1..Len(a[yy]) |-> ToFloat32(a[yy][xx])]]

\* the coordinates divided by 8 without the floor: (px / 8, py / 8)
DownTrueDivision(p) ==
    <<IF p[1].d = 0 THEN p[1] ELSE Rat(p[1].n, p[1].d * DownFactor),
      IF p[2].d = 0 THEN p[2] ELSE Rat(p[2].n, p[2].d * DownFactor)>>

\* (px//8, py//8) and centroid//8
Down(p) == <<FloorDiv(p[1], DownFactor), FloorDiv(p[2], DownFactor)>>

\* lines 116-118: one iteration of the loop over projected_vertices.T
LoopIter(w) ==
    /\ pc[w] = "loop"
    /\ loc[w].i < Len(loc[w].projected_vertices[1])
    /\ LET i == loc[w].i
           px == loc[w].projected_vertices[1][i + 1]
           py == loc[w].projected_vertices[2][i + 1]
           size == <<loc[w].h, loc[w].w>>
           vf == vector_field(Down(<<px, py>>), Down(loc[w].centroid), size)
       IN  loc' = [loc EXCEPT ![w] =
                      [@ EXCEPT !.belief_map[i + 1] =
                                    Store32(gaussian_heatmaps(Down(<<px, py>>), Sigma, size)),
                                !.vector_field[2 * i + 1] = Store32(vf[1]),
                                !.vector_field[2 * i + 2] = Store32(vf[2]),
                                !.i = i + 1]]
    /\ UNCHANGED <<models, pc, sample, result, probe>>

\* line 120, after the loop
CentroidBelief(w) ==
    /\ pc[w] = "loop"
    /\ loc[w].i >= Len(loc[w].projected_vertices[1])
    /\ loc' = [loc EXCEPT ![w].belief_map[9] =
                  Store32(gaussian_heatmaps(Down(loc[w].centroid), Sigma,
                                            <<loc[w].h, loc[w].w>>))]
    /\ pc' = [pc EXCEPT ![w] = "return"]
    /\ UNCHANGED <<models, sample, result, probe>>

\* __getitem__ returning the belief maps alone
ConcatBeliefOnly(w) ==
    /\ pc[w] = "return"
    /\ result' = [result EXCEPT ![w] =
                     [status |-> "ok",
                      gt_maps |-> loc[w].belief_map,
                      projected_vertices |-> loc[w].projected_vertices]]
    /\ pc' = [pc EXCEPT ![w] = "done"]
    /\ UNCHANGED <<models, sample, loc, probe>>

\* lines 122 and 134-135: generate_ground_truth returns the two arrays and the
\* projected points to __getitem__, which stacks the arrays into gt_maps; result holds
\* gt_maps and the points as __getitem__ has them after line 135
Concat(w) ==
    /\ pc[w] = "return"
    /\ result' = [result EXCEPT ![w] =
                     [status |-> "ok",
                      gt_maps |-> loc[w].belief_map \o loc[w].vector_field,
                      projected_vertices |-> loc[w].projected_vertices]]
    /\ pc' = [pc EXCEPT ![w] = "done"]
    /\ UNCHANGED <<models, sample, loc, probe>>

Step(w) ==
    \/ Alloc(w)
    \/ Lookup(w)
    \/ CreateVertices(w)
    \/ Project(w)
    \/ Centroid(w)
    \/ LoopIter(w)
    \/ CentroidBelief(w)
    \/ Concat(w)

Init == InitFor({1})

Next == GetItem(1, Dataset) \/ Step(1)

Spec == Init /\ [][Next]_vars

Workers == 1..NumWorkers

InitConc == InitFor(Workers)

NextConc == \E w \in Workers : GetItem(w, ConcDataset) \/ Step(w)

SpecConc == InitConc /\ [][NextConc]_vars

-----------------------------------------------------------------------------
(* Direct calls of the two rasterizers, on centres given to a fraction of  *)
(* a cell (binary fractions, which float64 holds exactly).                 *)

\* centres are multiples of 2^-SubBits of a cell
SubBits == 1

Sub == 2^SubBits

\* a distance in cells at which float64 exp(-d^2 / 8) has underflowed to 0
FarCell == 90

Sizes == (1..MaxGrid) \X (1..MaxGrid)

HMCoords ==
    {Rat(k, Sub) : k \in (-Sub)..(Sub * MaxGrid)}
    \cup {RInt(-FarCell), RInt(MaxGrid + FarCell)}

HMInputs ==
    {[fn |-> "gaussian_heatmaps", a |-> <<cx, cy>>, b |-> << >>, sigma |-> sg,
      size |-> sz, called |-> FALSE, out |-> << >>] :
        cx \in HMCoords, cy \in HMCoords, sg \in {Sigma}, sz \in Sizes}

InitHM == InitDataset({1}) /\ probe \in HMInputs

CallGaussian ==
    /\ probe.fn = "gaussian_heatmaps"
    /\ ~probe.called
    /\ probe' = [probe EXCEPT !.called = TRUE,
                              !.out = gaussian_heatmaps(probe.a, probe.sigma, probe.size)]
    /\ UNCHANGED <<models, pc, sample, loc, result>>

NextHM == CallGaussian

SpecHM == InitHM /\ [][NextHM]_vars

VFSourceX ==
    {RInt(-(radius + 1)), RInt(-radius), Rat(-(radius * Sub) - 1, Sub),
     Rat(-(radius * Sub) + 1, Sub), Rat(1, Sub), RInt(1)}

VFSourceY == {RInt(0), Rat(1, Sub), RInt(-radius)}

VFTargetCoords == {RInt(0), RInt(1), Rat(1, Sub), RInt(-2), RInt(MaxGrid + 3)}

VFInputs ==
    {[fn |-> "vector_field", a |-> <<sx, sy>>, b |-> <<tx, ty>>, sigma |-> 0,
      size |-> sz, called |-> FALSE, out |-> << >>] :
        sx \in VFSourceX, sy \in VFSourceY, tx \in VFTargetCoords,
        ty \in VFTargetCoords, sz \in Sizes}

InitVF == InitDataset({1}) /\ probe \in VFInputs

CallVectorField ==
    /\ probe.fn = "vector_field"
    /\ ~probe.called
    /\ probe' = [probe EXCEPT !.called = TRUE,
                              !.out = vector_field(probe.a, probe.b, probe.size)]
    /\ UNCHANGED <<models, pc, sample, loc, result>>

NextVF == CallVectorField

SpecVF == InitVF /\ [][NextVF]_vars

-----------------------------------------------------------------------------
(* The properties.  Channel c of the stacked tensor (counted from 0) is    *)
(* gt_maps[c + 1]; corner i (counted from 0) is column i + 1.              *)

Ws == DOMAIN pc

Returned(w) == pc[w] = "done"

HasModel(w) == Str(sample[w].target.category_id) \in DOMAIN ModelsJson

\* H' = floor(H / 8) and W' = floor(W / 8)
GridH(w) == sample[w].shape[1] \div 8

GridW(w) == sample[w].shape[2] \div 8

GridSize(w) == <<GridH(w), GridW(w)>>

Cells(w) == (0..(GridW(w) - 1)) \X (0..(GridH(w) - 1))

\* origin, +ex, +ey, +ez, +ex+ey, +ex+ez, +ey+ez, +ex+ey+ez: which extents corner i adds
CornerMask ==
    <<<<0, 0, 0>>, <<1, 0, 0>>, <<0, 1, 0>>, <<0, 0, 1>>,
      <<1, 1, 0>>, <<1, 0, 1>>, <<0, 1, 1>>, <<1, 1, 1>>>>

Corner(m, i) ==
    <<m.min_x + CornerMask[i + 1][1] * m.size_x,
      m.min_y + CornerMask[i + 1][2] * m.size_y,
      m.min_z + CornerMask[i + 1][3] * m.size_z>>

\* the pixel corner i of the annotated object projects to
CornerPixel(w, i) ==
    LET m == ModelsJson[Str(sample[w].target.category_id)]
        p == project_3D_vertices(<<Corner(m, i)>>, sample[w].target)
    IN  <<p[1][1], p[2][1]>>

BeliefAround(c, size) == Store32(gaussian_heatmaps(c, Sigma, size))

FieldAround(src, tgt, size) ==
    LET vf == vector_field(src, tgt, size) IN <<Store32(vf[1]), Store32(vf[2])>>

\* C1: in the stacked output, channel i is the belief map of vertex i, channels
\* 9+2i and 10+2i are the x and y components of the vector field of vertex i, and
\* channel 8 is the centroid belief map, vertex i being the i-th corner of the
\* enumeration origin, +ex, +ey, +ez, +ex+ey, +ex+ez, +ey+ez, +ex+ey+ez.
C1_ChannelLayout ==
    \A w \in Ws :
        Returned(w) =>
            LET T == result[w].gt_maps
                c == Down(loc[w].centroid)
            IN  /\ \A i \in 0..7 :
                       LET v == Down(CornerPixel(w, i))
                       IN  /\ T[i + 1] = BeliefAround(v, GridSize(w))
                           /\ T[9 + 2 * i + 1] = FieldAround(v, c, GridSize(w))[1]
                           /\ T[10 + 2 * i + 1] = FieldAround(v, c, GridSize(w))[2]
                /\ T[8 + 1] = BeliefAround(c, GridSize(w))

\* a returned tensor whose corners 1, 2, 3 (+ex, +ey, +ez) have three different
\* belief maps and two different vector fields
C1_Witness ==
    \E w \in Ws :
        /\ Returned(w)
        /\ GridH(w) >= 2 /\ GridW(w) >= 2
        /\ Cardinality({result[w].gt_maps[i + 1] : i \in 1..3}) = 3
        /\ result[w].gt_maps[9 + 2 + 1] # result[w].gt_maps[9 + 4 + 1]
        /\ result[w].gt_maps[9 + 2 + 1] # result[w].gt_maps[10 + 2 + 1]

\* C3: generate fails with InvalidInputSize, and returns no tensor, whenever
\* floor(H/8) < 1 or floor(W/8) < 1.
C3_InvalidInputSize ==
    \A w \in Ws :
        (GridH(w) < 1 \/ GridW(w) < 1) =>
            /\ ~Returned(w)
            /\ result[w].status # "ok"

\* the third homogeneous component of K [R|t] point_h for vertex j
Depth(w, j) == homogeneous_2d(loc[w].vertices, sample[w].target)[j][3]

\* C4: a vertex of non-positive homogeneous depth never comes back as a finite
\* pixel coordinate.
C4_DegenerateProjection ==
    \A w \in Ws :
        Returned(w) =>
            \A j \in 1..8 :
                Depth(w, j) <= 0 =>
                    ~(/\ IsFinite(result[w].projected_vertices[1][j])
                      /\ IsFinite(result[w].projected_vertices[2][j]))

\* C6: for an image with floor(H/8) >= 1 and floor(W/8) >= 1 and a model in the
\* table, generate returns a tensor of shape (25, floor(H/8), floor(W/8)), 9 belief
\* channels followed by 16 vector-field channels, and the 8 projected points.
C6_TensorShape ==
    \A w \in Ws :
        /\ (pc[w] = "raised" => ~HasModel(w))
        /\ (Returned(w) /\ GridH(w) >= 1 /\ GridW(w) >= 1) =>
               LET T == result[w].gt_maps
                   P == result[w].projected_vertices
               IN  /\ result[w].status = "ok"
                   /\ Len(T) = 25
                   /\ \A c \in 1..25 :
                          /\ Len(T[c]) = GridH(w)
                          /\ \A y \in 1..GridH(w) : Len(T[c][y]) = GridW(w)
                   /\ SubSeq(T, 1, 9) = loc[w].belief_map
                   /\ SubSeq(T, 10, 25) = loc[w].vector_field
                   /\ Len(P) = 2 /\ Len(P[1]) = 8 /\ Len(P[2]) = 8

C6_Witness ==
    \E w \in Ws :
        /\ Returned(w)
        /\ GridH(w) >= 2 /\ GridW(w) >= 1 /\ GridH(w) # GridW(w)
        /\ Len(result[w].gt_maps) = 25

\* C7: with the category absent from the model table the call fails at the lookup
\* with a KeyError, goes no further, yields no tensor, and leaves the table as it was.
C7_ModelNotFound ==
    \A w \in Ws :
        /\ (pc[w] # "idle" /\ ~HasModel(w)) =>
               /\ pc[w] \in {"alloc", "lookup", "raised"}
               /\ (pc[w] = "raised" => result[w].status = "KeyError")
               /\ result[w].status \in {"none", "KeyError"}
               /\ result[w].gt_maps = << >>
               /\ models = ModelsJson
        /\ (result[w].status = "KeyError" => ~HasModel(w) /\ pc[w] = "raised")

C7_Witness ==
    \E w \in Ws :
        /\ ~HasModel(w)
        /\ pc[w] = "raised"
        /\ result[w].status = "KeyError"
        /\ models = ModelsJson

\* the arithmetic mean of the 8 projected full-resolution pixel points
PixelMean(P) == <<RMean(P[1]), RMean(P[2])>>

\* the projection of the centre of the 3D box (taken at twice its coordinates, with
\* homogeneous weight 2, so that odd extents stay integral)
BoxCentrePixel(w) ==
    LET m == ModelsJson[Str(sample[w].target.category_id)]
        c2 == <<2 * m.min_x + m.size_x, 2 * m.min_y + m.size_y, 2 * m.min_z + m.size_z, 2>>
        P == P_m2c(sample[w].target)
    IN  <<Rat(Dot(P[1], c2), Dot(P[3], c2)), Rat(Dot(P[2], c2), Dot(P[3], c2))>>

\* the mean of the vertex coordinates after each was downsampled
MeanOfDownsampled(P) ==
    <<RMean([j \in 1..8 |-> FloorDiv(P[1][j], 8)]), RMean([j \in 1..8 |-> FloorDiv(P[2][j], 8)])>>

\* C10: belief channel 8 is rendered around, and all 8 vector fields point to, the
\* mean of the 8 projected pixel points, downsampled after the mean was taken.
C10_CentroidOfProjections ==
    \A w \in Ws :
        Returned(w) =>
            LET T == result[w].gt_maps
                P == result[w].projected_vertices
                c == Down(PixelMean(P))
            IN  /\ T[8 + 1] = BeliefAround(c, GridSize(w))
                /\ \A i \in 0..7 :
                       LET f == FieldAround(Down(<<P[1][i + 1], P[2][i + 1]>>), c, GridSize(w))
                       IN  T[9 + 2 * i + 1] = f[1] /\ T[10 + 2 * i + 1] = f[2]

\* a returned tensor for which the projected box centre and the mean of the
\* downsampled vertices would both have given another channel 8
C10_Witness ==
    \E w \in Ws :
        /\ Returned(w)
        /\ GridH(w) >= 1 /\ GridW(w) >= 1
        /\ LET T == result[w].gt_maps
               P == result[w].projected_vertices
           IN  /\ IsFinite(PixelMean(P)[1]) /\ IsFinite(PixelMean(P)[2])
               /\ T[8 + 1] = BeliefAround(Down(PixelMean(P)), GridSize(w))
               /\ T[8 + 1] # BeliefAround(Down(BoxCentrePixel(w)), GridSize(w))
               /\ T[8 + 1] # BeliefAround(MeanOfDownsampled(P), GridSize(w))
               /\ T[8 + 1] # BeliefAround(Down(MeanOfDownsampled(P)), GridSize(w))

\* round(r / 8), halves to the even neighbour, for a finite r
RoundDiv8(r) ==
    LET q == r.n \div (4 * r.d)
        odd == q % 2 = 1
        exact == r.n = q * 4 * r.d
        f == q \div 2
    IN  IF ~odd THEN f
        ELSE IF exact THEN (IF f % 2 = 0 THEN f ELSE f + 1)
        ELSE f + 1

\* the downsampled projection p / 8 lies inside the grid
InGrid(p, w) ==
    /\ IsFinite(p[1]) /\ IsFinite(p[2])
    /\ 0 <= p[1].n /\ p[1].n < 8 * GridW(w) * p[1].d
    /\ 0 <= p[2].n /\ p[2].n < 8 * GridH(w) * p[2].d

\* cell (x, y) holds the largest value of the map g
IsPeak(g, x, y, w) == \A c \in Cells(w) : ~FLess(At(g, x, y), At(g, c[1], c[2]))

\* every peak of the belief channel of an in-grid corner is within one cell of
\* round(projected / 8)
PeakNearRounded(w) ==
    \A i \in 0..7 :
        LET p == <<result[w].projected_vertices[1][i + 1],
                   result[w].projected_vertices[2][i + 1]>>
        IN  InGrid(p, w) =>
                /\ \E c \in Cells(w) : IsPeak(result[w].gt_maps[i + 1], c[1], c[2], w)
                /\ \A c \in Cells(w) :
                       IsPeak(result[w].gt_maps[i + 1], c[1], c[2], w) =>
                           /\ Abs(c[1] - RoundDiv8(p[1])) <= 1
                           /\ Abs(c[2] - RoundDiv8(p[2])) <= 1

\* C5 as stated: the peaks lie within one cell of round(projected / 8), and in the
\* scenario channel 0 is rendered around the centre projected / 8 = (6.25, 6.25).
C5_ScenarioCentreFractional ==
    \A w \in Ws :
        Returned(w) =>
            /\ PeakNearRounded(w)
            /\ sample[w] = Scenario =>
                   LET P == result[w].projected_vertices
                       c == <<Rat(P[1][1].n, 8 * P[1][1].d), Rat(P[2][1].n, 8 * P[2][1].d)>>
                   IN  /\ c = <<Rat(25, 4), Rat(25, 4)>>
                       /\ result[w].gt_maps[1] = BeliefAround(c, <<10, 10>>)

\* C5 amended: the peaks lie within one cell of round(projected / 8), and in the
\* scenario channel 0 is rendered around floor(50 / 8) = (6, 6), where alone it is 1.
C5_PeakNearRounded ==
    \A w \in Ws :
        Returned(w) =>
            /\ PeakNearRounded(w)
            /\ sample[w] = Scenario =>
                   /\ result[w].projected_vertices[1][1] = RInt(50)
                   /\ result[w].projected_vertices[2][1] = RInt(50)
                   /\ result[w].gt_maps[1] = BeliefAround(<<RInt(6), RInt(6)>>, <<10, 10>>)
                   /\ \A c \in Cells(w) :
                          At(result[w].gt_maps[1], c[1], c[2]) = One <=> c = <<6, 6>>

\* the scenario has returned, and a corner whose projection is not a multiple of 8
\* lies in the grid
C5_Witness ==
    \E w \in Ws :
        /\ Returned(w)
        /\ sample[w] = Scenario
        /\ \E i \in 0..7 :
               LET p == <<result[w].projected_vertices[1][i + 1],
                          result[w].projected_vertices[2][i + 1]>>
               IN  InGrid(p, w) /\ p[1] # RInt(8 * RoundDiv8(p[1]))

\* what generate_ground_truth and the stacking return for sample d when run alone
\* over the table as loaded
GenerateAlone(d) ==
    LET key == Str(d.target.category_id)
        size == <<d.shape[1] \div 8, d.shape[2] \div 8>>
    IN  IF key \notin DOMAIN ModelsJson
        THEN [status |-> "KeyError", gt_maps |-> << >>, projected_vertices |-> << >>]
        ELSE LET P == project_3D_vertices(create_3D_vertices(ModelsJson[key]), d.target)
                 c == Down(PixelMean(P))
                 V(i) == Down(<<P[1][i], P[2][i]>>)
                 belief == [i \in 1..9 |->
                               IF i <= 8 THEN BeliefAround(V(i), size)
                               ELSE BeliefAround(c, size)]
                 field == [k \in 1..16 |->
                              FieldAround(V((k + 1) \div 2), c, size)[2 - (k % 2)]]
             IN  [status |-> "ok", gt_maps |-> belief \o field, projected_vertices |-> P]

Finished(w) == pc[w] \in {"done", "raised"}

\* C8: whatever the interleaving of the workers, the model table stays as loaded, a
\* fetched annotation is never modified, every call returns what it returns when run
\* alone, and calls on the same input return the same output.
C8_NoSharedState ==
    /\ [](models = ModelsJson)
    /\ [](\A w \in Ws : Finished(w) => result[w] = GenerateAlone(sample[w]))
    /\ [](\A w1, w2 \in Ws :
              (Finished(w1) /\ Finished(w2) /\ sample[w1] = sample[w2]) =>
                  result[w1] = result[w2])
    /\ [][\A w \in Ws : pc[w] # "idle" => sample'[w] = sample[w]]_vars

\* one worker has returned while another is in the middle of the loop on the same input
C8_Witness ==
    \E w1, w2 \in Ws :
        /\ w1 # w2
        /\ Returned(w1)
        /\ pc[w2] = "loop" /\ loc[w2].i \in 1..7
        /\ sample[w1] = sample[w2]
        /\ result[w1].status = "ok"
        /\ result[w1] = GenerateAlone(sample[w1])

-----------------------------------------------------------------------------
(* The rasterizers called directly.                                        *)

ProbeCells == (0..(probe.size[2] - 1)) \X (0..(probe.size[1] - 1))

\* a < b for fractions
RLess(a, b) == a.n * b.d < b.n * a.d

\* |v| in units of 2^-14, for |v| <= 1 (2^15 stands for anything larger)
Q14(v) ==
    IF v.k # "num" THEN 2 * HalfRadix
    ELSE IF v.m = 0 \/ v.e < -28 THEN 0
    ELSE IF v.e > -14 THEN 2 * HalfRadix
    ELSE v.s * (v.m \div (2^((-14) - v.e)))

\* the tolerance on a squared magnitude of 1 = 2^28: 2^-10
UnitTol == 2^18

IsUnit(vx, vy) ==
    /\ IsNum(vx) /\ IsNum(vy)
    /\ Abs(Q14(vx) * Q14(vx) + Q14(vy) * Q14(vy) - HalfRadix * HalfRadix) <= UnitTol

\* (vx, vy) has the direction of target - (x, y)
PointsToward(vx, vy, x, y, target) ==
    LET ax == (target[1].n - x * target[1].d) * target[2].d
        ay == (target[2].n - y * target[2].d) * target[1].d
    IN  /\ Abs(ax * Q14(vy) - ay * Q14(vx)) <= 2 * (Abs(ax) + Abs(ay))
        /\ ax * Q14(vx) + ay * Q14(vy) > 0

OnCell(p, x, y) == p[1] = RInt(x) /\ p[2] = RInt(y)

\* C2: a cell farther than the radius 3 from source holds exactly (0, 0); a cell
\* within the radius holds the unit vector toward target, or (0, 0) when it is target.
C2_VectorField ==
    (probe.fn = "vector_field" /\ probe.called) =>
        \A c \in ProbeCells :
            LET x == c[1]
                y == c[2]
                vx == At(probe.out[1], x, y)
                vy == At(probe.out[2], x, y)
                d2 == Dist2(x, y, probe.a[1], probe.a[2])
            IN  IF d2.n > 3 * 3 * d2.d THEN vx = Zero /\ vy = Zero
                ELSE IF OnCell(probe.b, x, y) THEN vx = Zero /\ vy = Zero
                ELSE IsUnit(vx, vy) /\ PointsToward(vx, vy, x, y, probe.b)

\* one field with a cell outside the disk, a cell inside it that is the target, and
\* a cell inside it that is not
C2_Witness ==
    /\ probe.fn = "vector_field" /\ probe.called
    /\ \E c1, c2, c3 \in ProbeCells :
           LET D(c) == Dist2(c[1], c[2], probe.a[1], probe.a[2])
           IN  /\ D(c1).n > 9 * D(c1).d
               /\ D(c2).n <= 9 * D(c2).d /\ OnCell(probe.b, c2[1], c2[2])
               /\ D(c3).n <= 9 * D(c3).d /\ ~OnCell(probe.b, c3[1], c3[2])
               /\ IsUnit(At(probe.out[1], c3[1], c3[2]), At(probe.out[2], c3[1], c3[2]))

\* v lies in [0, 1]
InUnitInterval(v) == IsNum(v) /\ v.s = 1 /\ (v.m = 0 \/ v = One \/ v.e + 15 <= 0)

\* v is a normal float64: at least 2^-1022
IsNormal64(v) == IsNum(v) /\ v.m # 0 /\ v.e + 14 >= -1022

HMVal(c) == At(probe.out, c[1], c[2])

HMDist2(c) == Dist2(c[1], c[2], probe.a[1], probe.a[2])

====
